---- MODULE Spec2Model ----
(***************************************************************************)
(* Model of the transaction-assembling clients of the Aldrin SDK:          *)
(* PoolClient (depositLiquidity, withdrawLiquidity, swap) and              *)
(* StakingClient (startStaking, endStaking, endStakingTicket, claim).      *)
(*                                                                         *)
(* Every call of a client method is a process.  A process advances from    *)
(* one await of the method to the next; the answers of the network (the    *)
(* accounts it returns, the failure of a request, the outcome of a         *)
(* submission) are chosen by the environment.  A transaction is the        *)
(* sequence of the instructions added to it.                               *)
(***************************************************************************)
EXTENDS Integers, Sequences, FiniteSets, TLC

\* The calls that may be in flight on the same client at the same time.
Procs == {1, 2}

\* ------------------------------------------------------------------ bounds
\* Longest list of token accounts the network returns for one owner.
MaxTokenAccounts == 2

\* Longest farming list of the staking pool.
MaxFarming == 2

\* Most staking tickets the network returns for the wallet.
MaxTickets == 2

\* The largest token amount (LP tokens, vault balances, supply).
MaxAmount == 3

\* Most farming states of the pool, and farming-calc accounts of the program.
MaxStates == 1
MaxCalcs == 2

\* ------------------------------------------------------- program constants
\* The end time of a ticket that has not been closed.  On chain it is the
\* largest signed 64-bit number; only equality with it is ever tested.
DEFAULT_FARMING_TICKET_END_TIME == 2147483647

\* `new BN(3600)`: a ticket can be closed one hour after it was opened.
UnstakeDelay == 3600

\* enum SIDE
SIDE_BID == 1
SIDE_ASK == -1

\* `slippage = 0.001`, the default of swap, in thousandths.
DefaultSwapSlippage == 1

\* PRECISION_NOMINATOR, the denominator of the referral share.  It is imported
\* by the pool client; its value is defined elsewhere in the package.
PRECISION_NOMINATOR == 1000000

\* The wrapped-SOL mint and the other mints of the predefined pools.
SOL_MINT == "So11111111111111111111111111111111111111112"
RIN_MINT == "E5ndSkaB17Dm7CsD22dvcjfrYSDLCxFcMd6z8ddCk5wp"
USDC_MINT == "EPjFWdd5AufqSSqeM2qN1xzybapC8G4wEGGkZwyTDt1v"

Mints == {SOL_MINT, RIN_MINT, USDC_MINT}

\* ------------------------------------------------------------ public keys
\* A public key is known by where it comes from: a parameter of the call,
\* an account the network returned, or a key pair generated by the call.
Key(origin, name, proc, n) == [origin |-> origin, name |-> name, proc |-> proc, n |-> n]

\* A parameter the caller left out.
undefined == Key("undefined", "", 0, 0)

\* A parameter the caller supplied.
Param(name) == Key("params", name, 0, 0)

\* The n-th key pair generated by call p (Keypair.generate()).
Generated(p, n) == Key("generated", "Keypair", p, n)

\* The n-th account the network lists for an owner.
OnChain(owner, n) == Key("chain", owner, 0, n)

walletPublicKey == Param("wallet.publicKey")

\* -------------------------------------------------------------- sequences
\* Array.prototype.find on the positions of a list, given for each position
\* whether its element passes the test: the first position that does, 0 when
\* there is none.
Find(tests) ==
    LET hits == {i \in 1..Len(tests) : tests[i]}
    IN IF hits = {} THEN 0 ELSE CHOOSE i \in hits : \A j \in hits : i <= j

SeqsUpTo(S, n) == UNION {[1..k -> S] : k \in 0..n}

\* ----------------------------------------------------------- instructions
\* TokenClient.createTokenAccountTransaction: the transaction that creates
\* and initialises a token account of `mint` owned by `owner` under a newly
\* generated key, and that key.
CreateTokenAccountTransaction(owner, mint, payer, newKey) ==
    [transaction |-> << [kind |-> "createTokenAccount", account |-> newKey,
                         owner |-> owner, mint |-> mint, payer |-> payer] >>,
     newAccountPubkey |-> newKey]

\* Pool.swapInstruction
SwapInstruction(userBaseTokenAccount, userQuoteTokenAccount, side, minIncomeAmount) ==
    [kind |-> "swap", userBaseTokenAccount |-> userBaseTokenAccount,
     userQuoteTokenAccount |-> userQuoteTokenAccount, side |-> side,
     minIncomeAmount |-> minIncomeAmount,
     walletAuthority |-> walletPublicKey]

\* Token.createTransferInstruction
TransferInstruction(source, destination, owner, amount) ==
    [kind |-> "transfer", source |-> source, destination |-> destination,
     owner |-> owner, amount |-> amount]

\* Token.createCloseAccountInstruction
CloseAccountInstruction(account, destination, owner) ==
    [kind |-> "closeAccount", account |-> account, destination |-> destination,
     owner |-> owner]

\* ------------------------------------------------------------------ state
VARIABLES
    op,           \* op[p]: the client method call p runs, "idle" when none
    pc,           \* pc[p]: the await the call has reached
    params,       \* params[p]: the parameters of the call
    local,        \* local[p]: the local variables of the call
    transaction,  \* the Transaction objects under construction
    sent,         \* sent[p]: the transactions handed to sendTransaction
    result,       \* result[p]: the promise the call returned
    issued,       \* issued[p]: network requests and submissions started so far
    pending,      \* pending[p]: requests started whose promise nobody awaits
    netFailed     \* netFailed[p]: a request or submission of the call failed

vars == <<op, pc, params, local, transaction, sent, result, issued,
          pending, netFailed>>

None == [none |-> TRUE]

\* The signature the network returns for the i-th transaction call p sent.
TxId(p, i) == [signer |-> p, n |-> i]
NoTxId == TxId(0, 0)

\* The promise a call returns: pending, resolved with a transaction id (or a
\* list of them), or rejected with an error.
Pending == [status |-> "pending", error |-> "", txid |-> NoTxId, list |-> <<>>, amounts |-> <<>>]
Resolved(txid) == [status |-> "resolved", error |-> "", txid |-> txid, list |-> <<>>, amounts |-> <<>>]
ResolvedAll(txids) == [status |-> "resolved", error |-> "", txid |-> NoTxId, list |-> txids, amounts |-> <<>>]
Rejected(message) == [status |-> "rejected", error |-> message, txid |-> NoTxId, list |-> <<>>, amounts |-> <<>>]

\* The promise of getMaxWithdrawable resolved with
\* { withdrawAmountBase, withdrawAmountQuote }.
ResolvedAmounts(withdrawAmountBase, withdrawAmountQuote) ==
    [status |-> "resolved", error |-> "", txid |-> NoTxId, list |-> <<>>,
     amounts |-> <<withdrawAmountBase, withdrawAmountQuote>>]

NetworkError == "network error"

\* A Transaction object kept in a field of the client, shared by its calls.
TxSlotShared(p) == 1

\* `const transaction = new Transaction()`: the object is a local of the
\* call, so each call has its own.
TxSlot(p) == p

Init ==
    /\ op = [p \in Procs |-> "idle"]
    /\ pc = [p \in Procs |-> "idle"]
    /\ params = [p \in Procs |-> None]
    /\ local = [p \in Procs |-> None]
    /\ transaction = [s \in Procs |-> <<>>]
    /\ sent = [p \in Procs |-> <<>>]
    /\ result = [p \in Procs |-> Pending]
    /\ issued = [p \in Procs |-> 0]
    /\ pending = [p \in Procs |-> 0]
    /\ netFailed = [p \in Procs |-> FALSE]

\* ------------------------------------------------------- common fragments
\* The call of a method: the parameters are bound, nothing is issued yet.
Call(p, name, first, in, loc) ==
    /\ op[p] = "idle"
    /\ op' = [op EXCEPT ![p] = name]
    /\ pc' = [pc EXCEPT ![p] = first]
    /\ params' = [params EXCEPT ![p] = in]
    /\ local' = [local EXCEPT ![p] = loc]
    /\ sent' = [sent EXCEPT ![p] = <<>>]
    /\ result' = [result EXCEPT ![p] = Pending]
    /\ issued' = [issued EXCEPT ![p] = 0]
    /\ pending' = [pending EXCEPT ![p] = 0]
    /\ netFailed' = [netFailed EXCEPT ![p] = FALSE]

\* The instructions put in front of those already there.
AddedInFront(tx, instructions) == instructions \o tx

\* Transaction.add: the instructions go to the end of the transaction.
Added(tx, instructions) == tx \o instructions

\* transaction.add(...)
Add(p, instructions) ==
    transaction' = [transaction EXCEPT ![TxSlot(p)] = Added(@, instructions)]

\* throw new Error(message): the promise of the call rejects.
Throw(p, message) ==
    /\ result' = [result EXCEPT ![p] = Rejected(message)]
    /\ pc' = [pc EXCEPT ![p] = "done"]

\* An awaited network request rejects: the rejection leaves the call.
RequestFails(p) ==
    /\ issued' = [issued EXCEPT ![p] = @ + 1]
    /\ netFailed' = [netFailed EXCEPT ![p] = TRUE]
    /\ Throw(p, NetworkError)

\* An awaited network request answers.
RequestAnswers(p) ==
    /\ issued' = [issued EXCEPT ![p] = @ + 1]
    /\ UNCHANGED netFailed

\* return sendTransaction({ wallet, connection, transaction, partialSigners })
SendTransaction(p, tx, partialSigners) ==
    /\ sent' = [sent EXCEPT ![p] = Append(@, [transaction |-> tx,
                                    partialSigners |-> partialSigners,
                                    status |-> "inflight"])]
    /\ issued' = [issued EXCEPT ![p] = @ + 1]
    /\ pc' = [pc EXCEPT ![p] = "sending"]

\* ---------------------------------------------------------------- numbers
\* BN.muln, BN.mul: the product.  (muln multiplies each 26-bit word by the
\* number; for a whole number that is the exact product.)
Muln(a, n) == a * n
Mul(a, b) == a * b

\* BN.divn, BN.div: the quotient of non-negative numbers, the remainder
\* dropped.
Divn(a, n) == a \div n
Div(a, b) == a \div b

\* parseInt(bn.toString(), 10): the decimal digits read back as a number,
\* which is the same number below 2^53.
ParseInt(bn) == bn

\* ------------------------------------------------------- PoolClient.swap
SwapPools == [baseTokenMint : {SOL_MINT, RIN_MINT}, quoteTokenMint : {SOL_MINT, USDC_MINT}]

\* referralParams with the referral's share taken from `percents`.
ReferralParamsOf(percents) ==
    [referralAccount : {Param("referralParams.referralAccount")},
     createTokenAccounts : BOOLEAN,
     referralPercent : percents]

ReferralParams == {None} \cup ReferralParamsOf({1})

\* The parameters of swap.  slippage is <<>> when the caller leaves it out,
\* and otherwise holds the slippage in thousandths (0.001 is <<1>>).
SwapParamsOf(pools, accounts, amounts, slippages, referrals) ==
    [pool : pools,
     side : {SIDE_BID, SIDE_ASK},
     userBaseTokenAccount : accounts \cup {undefined},
     userQuoteTokenAccount : accounts \cup {undefined},
     minIncomeAmount : amounts,
     slippage : slippages,
     referralParams : referrals]

SwapParams ==
    [pool : SwapPools,
     side : {SIDE_BID, SIDE_ASK},
     userBaseTokenAccount : {undefined, Param("userBaseTokenAccount")},
     userQuoteTokenAccount : {undefined, Param("userQuoteTokenAccount")},
     minIncomeAmount : {1000},
     slippage : {<<>>},
     referralParams : ReferralParams]

\* What getParsedTokenAccountsByOwner returns: the mint of each token account
\* of the owner, in the order of the response.
TokenAccountLists == SeqsUpTo(Mints, MaxTokenAccounts)

SwapCall(p, in) ==
    /\ Call(p, "swap", "swap:base", in,
            [userBaseTokenAccount |-> in.userBaseTokenAccount,
             userQuoteTokenAccount |-> in.userQuoteTokenAccount,
             generated |-> 0,
             walletTokens |-> <<>>])
    /\ transaction' = [transaction EXCEPT ![TxSlot(p)] = <<>>]

\* if (!userBaseTokenAccount) { ... }
SwapBaseAccount(p) ==
    /\ op[p] = "swap" /\ pc[p] = "swap:base"
    /\ IF local[p].userBaseTokenAccount = undefined
       THEN LET created == CreateTokenAccountTransaction(walletPublicKey,
                               params[p].pool.baseTokenMint, walletPublicKey,
                               Generated(p, local[p].generated + 1))
            IN /\ local' = [local EXCEPT ![p].userBaseTokenAccount = created.newAccountPubkey,
                                         ![p].generated = @ + 1]
               /\ Add(p, created.transaction)
       ELSE UNCHANGED <<local, transaction>>
    /\ pc' = [pc EXCEPT ![p] = "swap:quote"]
    /\ UNCHANGED <<op, params, sent, result, issued, pending, netFailed>>

\* if (!userQuoteTokenAccount) { ... }
SwapQuoteAccount(p) ==
    /\ op[p] = "swap" /\ pc[p] = "swap:quote"
    /\ IF local[p].userQuoteTokenAccount = undefined
       THEN LET created == CreateTokenAccountTransaction(walletPublicKey,
                               params[p].pool.quoteTokenMint, walletPublicKey,
                               Generated(p, local[p].generated + 1))
            IN /\ local' = [local EXCEPT ![p].userQuoteTokenAccount = created.newAccountPubkey,
                                         ![p].generated = @ + 1]
               /\ Add(p, created.transaction)
       ELSE UNCHANGED <<local, transaction>>
    /\ pc' = [pc EXCEPT ![p] = "swap:instruction"]
    /\ UNCHANGED <<op, params, sent, result, issued, pending, netFailed>>

\* `slippage = 0.001` in the destructuring of params: the slippage of the
\* call in thousandths.
SwapSlippage(in) ==
    IF in.slippage = <<>> THEN DefaultSwapSlippage ELSE in.slippage[1]

\* The minimum income amount rounded up instead of down.
SwapMinIncomeAmountRoundedUp(in) ==
    Divn(Muln(in.minIncomeAmount, 1000 - SwapSlippage(in)) + 999, 1000)

\* params.minIncomeAmount.muln(1000 - slippage * 1000).divn(1000).  For every
\* slippage that is a whole number of thousandths, slippage * 1000 is in
\* double arithmetic exactly that whole number.
SwapMinIncomeAmount(in) ==
    Divn(Muln(in.minIncomeAmount, 1000 - SwapSlippage(in)), 1000)

\* await PublicKey.findProgramAddress(...); transaction.add(Pool.swapInstruction(...))
SwapAddInstruction(p) ==
    /\ op[p] = "swap" /\ pc[p] = "swap:instruction"
    /\ Add(p, << SwapInstruction(local[p].userBaseTokenAccount,
                                 local[p].userQuoteTokenAccount, params[p].side,
                                 SwapMinIncomeAmount(params[p])) >>)
    /\ pc' = [pc EXCEPT ![p] = IF params[p].referralParams # None
                               THEN "swap:referral" ELSE "swap:close"]
    /\ UNCHANGED <<op, params, local, sent, result, issued, pending, netFailed>>

\* await this.connection.getParsedTokenAccountsByOwner(referralParams.referralAccount, ...)
SwapReferralTokens(p, ok, walletTokens) ==
    /\ op[p] = "swap" /\ pc[p] = "swap:referral"
    /\ IF ok
       THEN /\ RequestAnswers(p)
            /\ local' = [local EXCEPT ![p].walletTokens = walletTokens]
            /\ pc' = [pc EXCEPT ![p] = "swap:fee"]
            /\ UNCHANGED result
       ELSE /\ RequestFails(p)
            /\ UNCHANGED local
    /\ UNCHANGED <<op, params, transaction, sent, pending>>

\* The share taken per thousand instead of per hundred.
SwapRefFeeAmountPerThousand(minIncomeAmount, referralPercent) ==
    Div(Mul(minIncomeAmount, Divn(Muln(PRECISION_NOMINATOR, referralPercent), 1000)),
        PRECISION_NOMINATOR)

\* new u64(minIncomeAmount.mul(PRECISION_NOMINATOR.muln(referralPercent).divn(100))
\*             .div(PRECISION_NOMINATOR))
SwapRefFeeAmount(minIncomeAmount, referralPercent) ==
    Div(Mul(minIncomeAmount, Divn(Muln(PRECISION_NOMINATOR, referralPercent), 100)),
        PRECISION_NOMINATOR)

SwapIncomeMint(in) ==
    IF in.side = SIDE_ASK THEN in.pool.quoteTokenMint ELSE in.pool.baseTokenMint

SwapTakeFeesFromAccount(in, loc) ==
    IF in.side = SIDE_ASK THEN loc.userQuoteTokenAccount ELSE loc.userBaseTokenAccount

\* walletTokens.find((wt) => wt.account.data.parsed.info.mint === incomeMint)?.pubkey
SwapFindFeesDestination(walletTokens, incomeMint) ==
    LET IsIncome(mint) == mint = incomeMint
        i == Find([k \in 1..Len(walletTokens) |-> IsIncome(walletTokens[k])])
    IN IF i = 0 THEN undefined ELSE OnChain("referralAccount", i)

\* The account is created whether createTokenAccounts is set or not.
SwapAlwaysCreatesFeesDestination(found, referralParams) ==
    found = undefined

\* if (!feesDestination && referralParams.createTokenAccounts)
SwapCreatesFeesDestination(found, referralParams) ==
    found = undefined /\ referralParams.createTokenAccounts

\* The fee part of swap: the referral's account is looked up, created when
\* asked for, and the fee transfer is added; without an account it throws.
SwapReferralFee(p) ==
    /\ op[p] = "swap" /\ pc[p] = "swap:fee"
    /\ LET in == params[p]
           refFeeAmount == SwapRefFeeAmount(SwapMinIncomeAmount(in),
                                            in.referralParams.referralPercent)
           incomeMint == SwapIncomeMint(in)
           takeFeesFromAccount == SwapTakeFeesFromAccount(in, local[p])
           found == SwapFindFeesDestination(local[p].walletTokens, incomeMint)
           creates == SwapCreatesFeesDestination(found, in.referralParams)
           created == CreateTokenAccountTransaction(in.referralParams.referralAccount,
                          incomeMint, walletPublicKey,
                          Generated(p, local[p].generated + 1))
           feesDestination == IF creates THEN created.newAccountPubkey ELSE found
       IN IF feesDestination = undefined
          THEN /\ Throw(p, "No token account for referral wallet!")
               /\ UNCHANGED <<transaction, local>>
          ELSE /\ Add(p, (IF creates THEN created.transaction ELSE <<>>)
                         \o << TransferInstruction(takeFeesFromAccount,
                                   feesDestination, walletPublicKey,
                                   ParseInt(refFeeAmount)) >>)
               /\ local' = [local EXCEPT ![p].generated =
                                IF creates THEN @ + 1 ELSE @]
               /\ pc' = [pc EXCEPT ![p] = "swap:close"]
               /\ UNCHANGED result
    /\ UNCHANGED <<op, params, sent, issued, pending, netFailed>>

\* Only the accounts this call created are closed.
SwapCloseCreatedInstructions(pool, userBaseTokenAccount, userQuoteTokenAccount) ==
    (IF pool.baseTokenMint = SOL_MINT /\ userBaseTokenAccount.origin = "generated"
     THEN << CloseAccountInstruction(userBaseTokenAccount, walletPublicKey, walletPublicKey) >>
     ELSE <<>>)
    \o
    (IF pool.quoteTokenMint = SOL_MINT /\ userQuoteTokenAccount.origin = "generated"
     THEN << CloseAccountInstruction(userQuoteTokenAccount, walletPublicKey, walletPublicKey) >>
     ELSE <<>>)

\* The close-account instructions swap adds for the wrapped-SOL sides.
SwapCloseInstructions(pool, userBaseTokenAccount, userQuoteTokenAccount) ==
    (IF pool.baseTokenMint = SOL_MINT
     THEN << CloseAccountInstruction(userBaseTokenAccount, walletPublicKey, walletPublicKey) >>
     ELSE <<>>)
    \o
    (IF pool.quoteTokenMint = SOL_MINT
     THEN << CloseAccountInstruction(userQuoteTokenAccount, walletPublicKey, walletPublicKey) >>
     ELSE <<>>)

\* The close-account instructions put in front of the transaction.
SwapCloseFirstAndSend(p) ==
    /\ op[p] = "swap" /\ pc[p] = "swap:close"
    /\ LET tx == SwapCloseInstructions(params[p].pool,
                     local[p].userBaseTokenAccount, local[p].userQuoteTokenAccount)
                 \o transaction[TxSlot(p)]
       IN /\ transaction' = [transaction EXCEPT ![TxSlot(p)] = tx]
          /\ SendTransaction(p, tx, {})
    /\ UNCHANGED <<op, params, local, result, pending, netFailed>>

\* The end of swap: the close-account instructions, then sendTransaction.
SwapCloseAndSend(p) ==
    /\ op[p] = "swap" /\ pc[p] = "swap:close"
    /\ LET tx == Added(transaction[TxSlot(p)],
                       SwapCloseInstructions(params[p].pool,
                           local[p].userBaseTokenAccount, local[p].userQuoteTokenAccount))
       IN /\ transaction' = [transaction EXCEPT ![TxSlot(p)] = tx]
          /\ SendTransaction(p, tx, {})
    /\ UNCHANGED <<op, params, local, result, pending, netFailed>>

\* ----------------------------------------- PoolClient.getMaxWithdrawable
MaxWithdrawableParams == [poolTokenAmount : 0..MaxAmount]

\* What the three queries answer: the supply of the pool mint and the
\* balances of the two vaults.
VaultAnswers ==
    [supply : 0..MaxAmount, baseTokenAmount : 0..MaxAmount,
     quoteTokenAmount : 0..MaxAmount]

Unanswered == [supply |-> 0, baseTokenAmount |-> 0, quoteTokenAmount |-> 0]

\* The share rounded up instead of down.
WithdrawAmountRoundedUp(tokenAmount, poolTokenAmount, supply) ==
    Div(Mul(tokenAmount, poolTokenAmount) + supply - 1, supply)

\* baseTokenAmount.mul(poolTokenAmount).div(supply)
WithdrawAmount(tokenAmount, poolTokenAmount, supply) ==
    Div(Mul(tokenAmount, poolTokenAmount), supply)

GetMaxWithdrawableCall(p, in) ==
    /\ Call(p, "getMaxWithdrawable", "max:queries", in, [answer |-> Unanswered])
    /\ UNCHANGED transaction

\* await Promise.all([getMintInfo(poolMint), getTokenAccount(baseTokenVault),
\* getTokenAccount(quoteTokenVault)]) and the two shares; BN.div throws when
\* the supply is zero.
GetMaxWithdrawable(p, ok, answer) ==
    /\ op[p] = "getMaxWithdrawable" /\ pc[p] = "max:queries"
    /\ issued' = [issued EXCEPT ![p] = @ + 3]
    /\ IF ok
       THEN /\ UNCHANGED netFailed
            /\ local' = [local EXCEPT ![p].answer = answer]
            /\ IF answer.supply = 0
               THEN Throw(p, "Assertion failed")
               ELSE /\ result' = [result EXCEPT ![p] = ResolvedAmounts(
                         WithdrawAmount(answer.baseTokenAmount,
                                        params[p].poolTokenAmount, answer.supply),
                         WithdrawAmount(answer.quoteTokenAmount,
                                        params[p].poolTokenAmount, answer.supply))]
                    /\ pc' = [pc EXCEPT ![p] = "done"]
       ELSE /\ netFailed' = [netFailed EXCEPT ![p] = TRUE]
            /\ Throw(p, NetworkError)
            /\ UNCHANGED local
    /\ UNCHANGED <<op, params, transaction, sent, pending>>

\* ------------------------------------------- PoolClient.depositLiquidity
\* Pool.depositLiquididtyInstruction
DepositLiquidityInstruction(userPoolTokenAccount) ==
    [kind |-> "depositLiquidity", userPoolTokenAccount |-> userPoolTokenAccount,
     walletAuthority |-> walletPublicKey]

DepositLiquidityParams ==
    [userPoolTokenAccount : {undefined, Param("userPoolTokenAccount")}]

DepositCall(p, in) ==
    /\ Call(p, "depositLiquidity", "deposit:mintInfo", in,
            [userPoolTokenAccount |-> in.userPoolTokenAccount, generated |-> 0])
    /\ transaction' = [transaction EXCEPT ![TxSlot(p)] = <<>>]

\* await this.tokenClient.getMintInfo(poolMint)
DepositMintInfo(p, ok) ==
    /\ op[p] = "depositLiquidity" /\ pc[p] = "deposit:mintInfo"
    /\ IF ok
       THEN /\ RequestAnswers(p)
            /\ pc' = [pc EXCEPT ![p] = "deposit:vault"]
            /\ UNCHANGED result
       ELSE RequestFails(p)
    /\ UNCHANGED <<op, params, local, transaction, sent, pending>>

\* await this.tokenClient.getTokenAccount(baseTokenVault), then creationSize:
\* BN.div throws on an empty vault.
DepositVault(p, ok, vaultEmpty) ==
    /\ op[p] = "depositLiquidity" /\ pc[p] = "deposit:vault"
    /\ IF ok
       THEN /\ RequestAnswers(p)
            /\ IF vaultEmpty
               THEN Throw(p, "Assertion failed")
               ELSE /\ pc' = [pc EXCEPT ![p] = "deposit:account"]
                    /\ UNCHANGED result
       ELSE /\ RequestFails(p)
    /\ UNCHANGED <<op, params, local, transaction, sent, pending>>

\* if (!userPoolTokenAccount) { ... }
DepositPoolAccount(p) ==
    /\ op[p] = "depositLiquidity" /\ pc[p] = "deposit:account"
    /\ IF local[p].userPoolTokenAccount = undefined
       THEN LET created == CreateTokenAccountTransaction(walletPublicKey, "poolMint",
                               walletPublicKey, Generated(p, local[p].generated + 1))
            IN /\ local' = [local EXCEPT ![p].userPoolTokenAccount = created.newAccountPubkey,
                                         ![p].generated = @ + 1]
               /\ Add(p, created.transaction)
       ELSE UNCHANGED <<local, transaction>>
    /\ pc' = [pc EXCEPT ![p] = "deposit:send"]
    /\ UNCHANGED <<op, params, sent, result, issued, pending, netFailed>>

\* transaction.add(instruction); return sendTransaction(...)
DepositSend(p) ==
    /\ op[p] = "depositLiquidity" /\ pc[p] = "deposit:send"
    /\ LET tx == Added(transaction[TxSlot(p)],
                       << DepositLiquidityInstruction(local[p].userPoolTokenAccount) >>)
       IN /\ transaction' = [transaction EXCEPT ![TxSlot(p)] = tx]
          /\ SendTransaction(p, tx, {})
    /\ UNCHANGED <<op, params, local, result, pending, netFailed>>

\* ------------------------------------------ PoolClient.withdrawLiquidity
\* Pool.withdrawLiquidityInstruction
WithdrawLiquidityInstruction(userBaseTokenAccount, userQuoteTokenAccount) ==
    [kind |-> "withdrawLiquidity", userBaseTokenAccount |-> userBaseTokenAccount,
     userQuoteTokenAccount |-> userQuoteTokenAccount,
     walletAuthority |-> walletPublicKey]

\* baseTokenReturnedMin and quoteTokenReturnedMin are BN objects or left out.
WithdrawLiquidityParams ==
    [pool : SwapPools,
     userBaseTokenAccount : {undefined, Param("userBaseTokenAccount")},
     userQuoteTokenAccount : {undefined, Param("userQuoteTokenAccount")},
     baseTokenReturnedMin : {"undefined", "BN"},
     quoteTokenReturnedMin : {"undefined", "BN"}]

WithdrawCall(p, in) ==
    /\ Call(p, "withdrawLiquidity", "withdraw:base", in,
            [userBaseTokenAccount |-> in.userBaseTokenAccount,
             userQuoteTokenAccount |-> in.userQuoteTokenAccount,
             generated |-> 0])
    /\ transaction' = [transaction EXCEPT ![TxSlot(p)] = <<>>]

\* if (!userBaseTokenAccount) { ... }
WithdrawBaseAccount(p) ==
    /\ op[p] = "withdrawLiquidity" /\ pc[p] = "withdraw:base"
    /\ IF local[p].userBaseTokenAccount = undefined
       THEN LET created == CreateTokenAccountTransaction(walletPublicKey,
                               params[p].pool.baseTokenMint, walletPublicKey,
                               Generated(p, local[p].generated + 1))
            IN /\ local' = [local EXCEPT ![p].userBaseTokenAccount = created.newAccountPubkey,
                                         ![p].generated = @ + 1]
               /\ Add(p, created.transaction)
       ELSE UNCHANGED <<local, transaction>>
    /\ pc' = [pc EXCEPT ![p] = "withdraw:quote"]
    /\ UNCHANGED <<op, params, sent, result, issued, pending, netFailed>>

\* if (!baseTokenReturnedMin || !quoteTokenReturnedMin)
WithdrawNeedsMax(in) ==
    in.baseTokenReturnedMin = "undefined" \/ in.quoteTokenReturnedMin = "undefined"

\* if (!userQuoteTokenAccount) { ... }
WithdrawQuoteAccount(p) ==
    /\ op[p] = "withdrawLiquidity" /\ pc[p] = "withdraw:quote"
    /\ IF local[p].userQuoteTokenAccount = undefined
       THEN LET created == CreateTokenAccountTransaction(walletPublicKey,
                               params[p].pool.quoteTokenMint, walletPublicKey,
                               Generated(p, local[p].generated + 1))
            IN /\ local' = [local EXCEPT ![p].userQuoteTokenAccount = created.newAccountPubkey,
                                         ![p].generated = @ + 1]
               /\ Add(p, created.transaction)
       ELSE UNCHANGED <<local, transaction>>
    /\ pc' = [pc EXCEPT ![p] = IF WithdrawNeedsMax(params[p])
                               THEN "withdraw:max" ELSE "withdraw:send"]
    /\ UNCHANGED <<op, params, sent, result, issued, pending, netFailed>>

\* await this.getMaxWithdrawable(params): three requests started together
\* (Promise.all); BN.div throws when the pool mint has no supply.
WithdrawMaxWithdrawable(p, ok, supplyZero) ==
    /\ op[p] = "withdrawLiquidity" /\ pc[p] = "withdraw:max"
    /\ issued' = [issued EXCEPT ![p] = @ + 3]
    /\ IF ok
       THEN /\ UNCHANGED netFailed
            /\ IF supplyZero
               THEN Throw(p, "Assertion failed")
               ELSE /\ pc' = [pc EXCEPT ![p] = "withdraw:send"]
                    /\ UNCHANGED result
       ELSE /\ netFailed' = [netFailed EXCEPT ![p] = TRUE]
            /\ Throw(p, NetworkError)
    /\ UNCHANGED <<op, params, local, transaction, sent, pending>>

\* transaction.add(instruction); return sendTransaction(...)
WithdrawSend(p) ==
    /\ op[p] = "withdrawLiquidity" /\ pc[p] = "withdraw:send"
    /\ LET tx == Added(transaction[TxSlot(p)],
                       << WithdrawLiquidityInstruction(local[p].userBaseTokenAccount,
                                                       local[p].userQuoteTokenAccount) >>)
       IN /\ transaction' = [transaction EXCEPT ![TxSlot(p)] = tx]
          /\ SendTransaction(p, tx, {})
    /\ UNCHANGED <<op, params, local, result, pending, netFailed>>

\* ------------------------------------------------------- StakingClient
\* AldrinApiPoolsClient.getStakingPoolInfo: the staking pool with its farming
\* list, which may be null.  The token of the staking pool is RIN.
poolTokenMint == RIN_MINT

FarmingItems == [tokensTotal : {1, 2}, tokensUnlocked : {1, 2}]

StakingPools ==
    {[farmingIsNull |-> TRUE, farming |-> <<>>]}
    \cup [farmingIsNull : {FALSE}, farming : SeqsUpTo(FarmingItems, MaxFarming)]

\* The part of stakingPool that is read no more.
Consumed == [farmingIsNull |-> FALSE, farming |-> <<>>]

\* stakingPool.farming.find((item) => item.tokensTotal !== item.tokensUnlocked)
FindFarmingStateItem(farming) ==
    LET Locked(item) == item.tokensTotal # item.tokensUnlocked
    IN Find([k \in 1..Len(farming) |-> Locked(farming[k])])

\* The error of the farming checks: "" when the pool passes them.
FarmingError(stakingPool, verb) ==
    IF stakingPool.farmingIsNull
    THEN IF verb = "claim" THEN "Dont have any farming tickets - cannot claim!"
         ELSE "Dont have any farming tickets - cannot stake!"
    ELSE IF FindFarmingStateItem(stakingPool.farming) = 0
    THEN IF verb = "claim" THEN "Dont have farming item - cannot claim!"
         ELSE "Dont have farming item - cannot stake!"
    ELSE ""

\* tokenAccounts.value.find((item) => item.account.data.parsed.info.mint === stakingPool.poolTokenMint)
FindTokenAccount(walletTokens) ==
    LET IsPoolToken(mint) == mint = poolTokenMint
    IN Find([k \in 1..Len(walletTokens) |-> IsPoolToken(walletTokens[k])])

\* createAccountInstruction
CreateAccountInstruction(newAccountPubkey) ==
    [kind |-> "createAccount", account |-> newAccountPubkey,
     programId |-> "STAKING_PROGRAM_ADDRESS", payer |-> walletPublicKey]

\* Staking.stakingInstruction
StakingInstruction(farmingState, userStakingTokenAccount, stakingTicket) ==
    [kind |-> "staking", farmingState |-> farmingState,
     userStakingTokenAccount |-> userStakingTokenAccount,
     stakingTicket |-> stakingTicket, userKey |-> walletPublicKey]

\* Staking.unstakingInstruction
UnstakingInstruction(farmingState, userStakingTokenAccount, stakingTicket) ==
    [kind |-> "unstaking", farmingState |-> farmingState,
     userStakingTokenAccount |-> userStakingTokenAccount,
     stakingTicket |-> stakingTicket, userKey |-> walletPublicKey]

\* withdrawFarmedInstruction
WithdrawFarmedInstruction(farmingState, farmingCalc, userFarmingTokenAccount) ==
    [kind |-> "withdrawFarmed", farmingState |-> farmingState,
     farmingCalc |-> farmingCalc,
     userFarmingTokenAccount |-> userFarmingTokenAccount,
     userKey |-> walletPublicKey]

\* ------------------------------------------- StakingClient.startStaking
StartStakingCall(p) ==
    /\ Call(p, "startStaking", "stake:poolInfo", None,
            [stakingPool |-> Consumed, stakingTicket |-> undefined,
             walletTokens |-> <<>>, generated |-> 0])
    /\ UNCHANGED transaction

\* await aldrinPoolsClient.getStakingPoolInfo()
StartStakingPoolInfo(p, ok, stakingPool) ==
    /\ op[p] = "startStaking" /\ pc[p] = "stake:poolInfo"
    /\ IF ok
       THEN /\ RequestAnswers(p)
            /\ local' = [local EXCEPT ![p].stakingPool = stakingPool]
            /\ pc' = [pc EXCEPT ![p] = "stake:ticket"]
            /\ UNCHANGED result
       ELSE /\ RequestFails(p)
            /\ UNCHANGED local
    /\ UNCHANGED <<op, params, transaction, sent, pending>>

\* Keypair.generate(); await createAccountInstruction({ connection, ... })
StartStakingTicket(p, ok) ==
    /\ op[p] = "startStaking" /\ pc[p] = "stake:ticket"
    /\ local' = [local EXCEPT ![p].stakingTicket = Generated(p, local[p].generated + 1),
                              ![p].generated = @ + 1]
    /\ IF ok
       THEN /\ RequestAnswers(p)
            /\ pc' = [pc EXCEPT ![p] = "stake:tokens"]
            /\ UNCHANGED result
       ELSE RequestFails(p)
    /\ UNCHANGED <<op, params, transaction, sent, pending>>

\* await this.connection.getParsedTokenAccountsByOwner(wallet.publicKey, ...)
StartStakingTokens(p, ok, walletTokens) ==
    /\ op[p] = "startStaking" /\ pc[p] = "stake:tokens"
    /\ IF ok
       THEN /\ RequestAnswers(p)
            /\ local' = [local EXCEPT ![p].walletTokens = walletTokens]
            /\ pc' = [pc EXCEPT ![p] = "stake:submit"]
            /\ UNCHANGED result
       ELSE /\ RequestFails(p)
            /\ UNCHANGED local
    /\ UNCHANGED <<op, params, transaction, sent, pending>>

\* The farming checks alone, the token account of the wallet not looked at.
StartStakingErrorFarmingOnly(walletTokens, stakingPool) ==
    FarmingError(stakingPool, "stake")

\* The error startStaking throws on a missing prerequisite, "" when none.
StartStakingError(walletTokens, stakingPool) ==
    IF FindTokenAccount(walletTokens) = 0 THEN "No account - cannot stake!"
    ELSE FarmingError(stakingPool, "stake")

\* The transaction of startStaking.
StartStakingTransaction(walletTokens, stakingPool, stakingTicket) ==
    << CreateAccountInstruction(stakingTicket),
       StakingInstruction(OnChain("farmingState", FindFarmingStateItem(stakingPool.farming)),
                          OnChain("wallet", FindTokenAccount(walletTokens)),
                          stakingTicket) >>

\* The prerequisites are checked, then the transaction is built and sent.
StartStakingSubmit(p) ==
    /\ op[p] = "startStaking" /\ pc[p] = "stake:submit"
    /\ LET error == StartStakingError(local[p].walletTokens, local[p].stakingPool)
       IN IF error # ""
          THEN /\ Throw(p, error)
               /\ UNCHANGED <<sent, issued>>
          ELSE /\ SendTransaction(p,
                      StartStakingTransaction(local[p].walletTokens,
                          local[p].stakingPool, local[p].stakingTicket),
                      {local[p].stakingTicket})
               /\ UNCHANGED result
    /\ UNCHANGED <<op, params, local, transaction, pending, netFailed>>

\* --------------------------------------- StakingClient.endStakingTicket
EndStakingTicketParams ==
    [farmingState : {Param("farmingState")},
     userStakingTokenAccount : {Param("userStakingTokenAccount")},
     stakingTicket : {Param("stakingTicket")}]

\* The transaction endStakingTicket builds: the unstaking instruction alone.
EndStakingTicketTransaction(in) ==
    << UnstakingInstruction(in.farmingState, in.userStakingTokenAccount,
                            in.stakingTicket) >>

EndStakingTicketCall(p, in) ==
    /\ Call(p, "endStakingTicket", "unstake:send", in, None)
    /\ UNCHANGED transaction

\* endStakingTicket has no await before sendTransaction.
EndStakingTicketSend(p) ==
    /\ op[p] = "endStakingTicket" /\ pc[p] = "unstake:send"
    /\ SendTransaction(p, EndStakingTicketTransaction(params[p]), {})
    /\ UNCHANGED <<op, params, local, transaction, result, pending, netFailed>>

\* --------------------------------------------- StakingClient.endStaking
\* The tickets getStakingTickets returns, and the clock (milliseconds).
StartTimes == {UnstakeDelay - 1, UnstakeDelay, UnstakeDelay + 1}
Clock == {2 * UnstakeDelay * 1000, 2 * UnstakeDelay * 1000 + 999}

StakingTickets == [endTime : {0, DEFAULT_FARMING_TICKET_END_TIME}, startTime : StartTimes]

TicketLists == SeqsUpTo(StakingTickets, MaxTickets)

\* new BN(Date.now() / 1000): BN keeps the whole part of the number.
NowBN(now) == now \div 1000

\* lte in place of lt.
TicketToCloseInclusive(ticket, now) ==
    /\ ticket.endTime = DEFAULT_FARMING_TICKET_END_TIME
    /\ ticket.startTime <= NowBN(now) - UnstakeDelay

\* ticket.endTime.eq(DEFAULT_FARMING_TICKET_END_TIME)
\*   && ticket.startTime.lt(new BN(Date.now() / 1000).sub(new BN(3600)))
TicketToClose(ticket, now) ==
    /\ ticket.endTime = DEFAULT_FARMING_TICKET_END_TIME
    /\ ticket.startTime < NowBN(now) - UnstakeDelay

\* tickets.filter(...): the positions of the tickets to close, in order.
RECURSIVE TicketsToCloseFrom(_, _, _)
TicketsToCloseFrom(tickets, now, i) ==
    IF i > Len(tickets) THEN <<>>
    ELSE (IF TicketToClose(tickets[i], now) THEN <<i>> ELSE <<>>)
         \o TicketsToCloseFrom(tickets, now, i + 1)

TicketsToClose(tickets, now) == TicketsToCloseFrom(tickets, now, 1)

EndStakingCall(p) ==
    /\ Call(p, "endStaking", "end:poolInfo", None,
            [stakingPool |-> Consumed, farmingStateItem |-> 0,
             walletTokens |-> <<>>, tokenAccountPublicKey |-> undefined,
             generated |-> 0, tickets |-> <<>>, now |-> 0, ticketsToClose |-> <<>>])
    /\ UNCHANGED transaction

\* await aldrinPoolsClient.getStakingPoolInfo()
EndStakingPoolInfo(p, ok, stakingPool) ==
    /\ op[p] = "endStaking" /\ pc[p] = "end:poolInfo"
    /\ IF ok
       THEN /\ RequestAnswers(p)
            /\ local' = [local EXCEPT ![p].stakingPool = stakingPool]
            /\ pc' = [pc EXCEPT ![p] = "end:checks"]
            /\ UNCHANGED result
       ELSE /\ RequestFails(p)
            /\ UNCHANGED local
    /\ UNCHANGED <<op, params, transaction, sent, pending>>

\* await PublicKey.findProgramAddress(...), then the farming checks.
EndStakingChecks(p) ==
    /\ op[p] = "endStaking" /\ pc[p] = "end:checks"
    /\ LET error == FarmingError(local[p].stakingPool, "stake")
       IN IF error # ""
          THEN /\ Throw(p, error)
               /\ UNCHANGED local
          ELSE /\ local' = [local EXCEPT
                              ![p].farmingStateItem = FindFarmingStateItem(local[p].stakingPool.farming),
                              ![p].stakingPool = Consumed]
               /\ pc' = [pc EXCEPT ![p] = "end:tokens"]
               /\ UNCHANGED result
    /\ UNCHANGED <<op, params, transaction, sent, issued, pending, netFailed>>

\* await this.connection.getParsedTokenAccountsByOwner(wallet.publicKey, ...)
EndStakingTokens(p, ok, walletTokens) ==
    /\ op[p] = "endStaking" /\ pc[p] = "end:tokens"
    /\ IF ok
       THEN /\ RequestAnswers(p)
            /\ local' = [local EXCEPT ![p].walletTokens = walletTokens]
            /\ pc' = [pc EXCEPT ![p] = "end:account"]
            /\ UNCHANGED result
       ELSE /\ RequestFails(p)
            /\ UNCHANGED local
    /\ UNCHANGED <<op, params, transaction, sent, pending>>

\* if (tokenAccount) { tokenAccountPublicKey = tokenAccount.pubkey }
\* else { resp = await createTokenAccountTransaction(...);
\*        tokenAccountPublicKey = resp.newAccountPubkey }
\* resp.transaction is not used: the chosen key and the instructions that go
\* into the transaction on its account.
UserTokenAccount(walletTokens, newKey) ==
    LET i == FindTokenAccount(walletTokens)
        resp == CreateTokenAccountTransaction(walletPublicKey, poolTokenMint,
                                              walletPublicKey, newKey)
    IN IF i # 0
       THEN [tokenAccountPublicKey |-> OnChain("wallet", i), instructions |-> <<>>]
       ELSE [tokenAccountPublicKey |-> resp.newAccountPubkey, instructions |-> <<>>]

EndStakingTokenAccount(p) ==
    /\ op[p] = "endStaking" /\ pc[p] = "end:account"
    /\ LET account == UserTokenAccount(local[p].walletTokens,
                                       Generated(p, local[p].generated + 1))
       IN local' = [local EXCEPT
                      ![p].tokenAccountPublicKey = account.tokenAccountPublicKey,
                      ![p].generated = IF account.tokenAccountPublicKey.origin = "generated"
                                       THEN @ + 1 ELSE @,
                      ![p].walletTokens = <<>>]
    /\ pc' = [pc EXCEPT ![p] = "end:tickets"]
    /\ UNCHANGED <<op, params, transaction, sent, result, issued, pending, netFailed>>

\* await this.getStakingTickets({ userKey: wallet.publicKey })
EndStakingTickets(p, ok, tickets) ==
    /\ op[p] = "endStaking" /\ pc[p] = "end:tickets"
    /\ IF ok
       THEN /\ RequestAnswers(p)
            /\ local' = [local EXCEPT ![p].tickets = tickets]
            /\ pc' = [pc EXCEPT ![p] = "end:fanout"]
            /\ UNCHANGED result
       ELSE /\ RequestFails(p)
            /\ UNCHANGED local
    /\ UNCHANGED <<op, params, transaction, sent, pending>>

\* Only the first ticket's call is made.
EndStakingStartedFirstOnly(ticketsToClose) ==
    IF Len(ticketsToClose) = 0 THEN {} ELSE {1}

\* ticketsToClose.map((ticket) => this.endStakingTicket({...})): the calls
\* made before Promise.all is reached, one per ticket to close.
EndStakingStarted(ticketsToClose) == 1..Len(ticketsToClose)

\* The tickets are filtered at the time `now`; with none to close the call
\* throws, otherwise endStakingTicket is called for each, and each call
\* reaches sendTransaction before map goes on to the next ticket.
EndStakingFanOut(p, now) ==
    /\ op[p] = "endStaking" /\ pc[p] = "end:fanout"
    /\ LET ticketsToClose == TicketsToClose(local[p].tickets, now)
           started == EndStakingStarted(ticketsToClose)
       IN /\ local' = [local EXCEPT ![p].now = now, ![p].ticketsToClose = ticketsToClose]
          /\ IF Len(ticketsToClose) = 0
             THEN /\ Throw(p, "No tickets, nothing to check")
                  /\ UNCHANGED <<sent, issued>>
             ELSE /\ sent' = [sent EXCEPT ![p] =
                        [i \in started |->
                           [transaction |-> EndStakingTicketTransaction(
                               [farmingState |-> OnChain("farmingState", local[p].farmingStateItem),
                                userStakingTokenAccount |-> local[p].tokenAccountPublicKey,
                                stakingTicket |-> OnChain("stakingTicket", ticketsToClose[i])]),
                            partialSigners |-> {},
                            status |-> "inflight"]]]
                  /\ issued' = [issued EXCEPT ![p] = @ + Cardinality(started)]
                  /\ pc' = [pc EXCEPT ![p] = "sending"]
                  /\ UNCHANGED result
    /\ UNCHANGED <<op, params, transaction, pending, netFailed>>

\* Promise.all(promises) when every promise has resolved: the values in the
\* order of the promises.
PromiseAll(p, n) == ResolvedAll([i \in 1..n |-> TxId(p, i)])

\* The submission of one ticket's transaction settles.  The first failure
\* rejects the promise of endStaking; the other submissions go on.
EndStakingTicketSettles(p, i, ok) ==
    /\ op[p] = "endStaking"
    /\ i \in 1..Len(sent[p])
    /\ sent[p][i].status = "inflight"
    /\ sent' = [sent EXCEPT ![p][i].status = IF ok THEN "ok" ELSE "failed"]
    /\ netFailed' = [netFailed EXCEPT ![p] = @ \/ ~ok]
    /\ LET settled == IF result[p].status # "pending" THEN result[p]
                      ELSE IF ~ok THEN Rejected(NetworkError)
                      ELSE IF \A j \in 1..Len(sent[p]) : j # i => sent[p][j].status = "ok"
                      THEN PromiseAll(p, Len(local[p].ticketsToClose))
                      ELSE Pending
       IN /\ result' = [result EXCEPT ![p] = settled]
          /\ pc' = [pc EXCEPT ![p] = IF settled.status = "pending" THEN "sending" ELSE "done"]
    /\ UNCHANGED <<op, params, local, transaction, issued, pending>>

\* -------------------------------------------------- StakingClient.claim
ClaimParams == [stakingPool : StakingPools]

ClaimCall(p, in) ==
    /\ Call(p, "claim", "claim:checks", None,
            [stakingPool |-> in.stakingPool, farmingStateItem |-> 0,
             walletTokens |-> <<>>, tokenAccountPublicKey |-> undefined,
             generated |-> 0, states |-> 0, calcs |-> <<>>])
    /\ UNCHANGED transaction

\* await PublicKey.findProgramAddress(...), then the farming checks.
ClaimChecks(p) ==
    /\ op[p] = "claim" /\ pc[p] = "claim:checks"
    /\ LET error == FarmingError(local[p].stakingPool, "claim")
       IN IF error # ""
          THEN /\ Throw(p, error)
               /\ UNCHANGED local
          ELSE /\ local' = [local EXCEPT
                              ![p].farmingStateItem = FindFarmingStateItem(local[p].stakingPool.farming),
                              ![p].stakingPool = Consumed]
               /\ pc' = [pc EXCEPT ![p] = "claim:tokens"]
               /\ UNCHANGED result
    /\ UNCHANGED <<op, params, transaction, sent, issued, pending, netFailed>>

\* await this.connection.getParsedTokenAccountsByOwner(wallet.publicKey, ...)
ClaimTokens(p, ok, walletTokens) ==
    /\ op[p] = "claim" /\ pc[p] = "claim:tokens"
    /\ IF ok
       THEN /\ RequestAnswers(p)
            /\ local' = [local EXCEPT ![p].walletTokens = walletTokens]
            /\ pc' = [pc EXCEPT ![p] = "claim:account"]
            /\ UNCHANGED result
       ELSE /\ RequestFails(p)
            /\ UNCHANGED local
    /\ UNCHANGED <<op, params, transaction, sent, pending>>

ClaimTokenAccount(p) ==
    /\ op[p] = "claim" /\ pc[p] = "claim:account"
    /\ LET account == UserTokenAccount(local[p].walletTokens,
                                       Generated(p, local[p].generated + 1))
       IN local' = [local EXCEPT
                      ![p].tokenAccountPublicKey = account.tokenAccountPublicKey,
                      ![p].generated = IF account.tokenAccountPublicKey.origin = "generated"
                                       THEN @ + 1 ELSE @,
                      ![p].walletTokens = <<>>]
    /\ pc' = [pc EXCEPT ![p] = "claim:states"]
    /\ UNCHANGED <<op, params, transaction, sent, result, issued, pending, netFailed>>

\* await this.getStakingState({ poolPublicKey }): `states` farming states.
ClaimStakingState(p, ok, states) ==
    /\ op[p] = "claim" /\ pc[p] = "claim:states"
    /\ IF ok
       THEN /\ RequestAnswers(p)
            /\ local' = [local EXCEPT ![p].states = states]
            /\ pc' = [pc EXCEPT ![p] = "claim:rewards"]
            /\ UNCHANGED result
       ELSE /\ RequestFails(p)
            /\ UNCHANGED local
    /\ UNCHANGED <<op, params, transaction, sent, pending>>

\* states.map((state) => { tokenInfo = this.tokenClient.getTokenAccount(...);
\* return { tokenInfo, state } }): one request per state is started, and
\* Promise.all is given objects, not the promises of the requests.
ClaimResolveRewards(p) ==
    /\ op[p] = "claim" /\ pc[p] = "claim:rewards"
    /\ issued' = [issued EXCEPT ![p] = @ + local[p].states]
    /\ pending' = [pending EXCEPT ![p] = @ + local[p].states]
    /\ pc' = [pc EXCEPT ![p] = "claim:calcs"]
    /\ UNCHANGED <<op, params, local, transaction, sent, result, netFailed>>

\* One of the getTokenAccount requests of claim settles; nothing awaits it.
ClaimVaultSettles(p, ok) ==
    /\ op[p] = "claim" /\ pending[p] > 0
    /\ pending' = [pending EXCEPT ![p] = @ - 1]
    /\ netFailed' = [netFailed EXCEPT ![p] = @ \/ ~ok]
    /\ UNCHANGED <<op, pc, params, local, transaction, sent, result, issued>>

\* A farming-calc account: the farming state it belongs to (0: a state of
\* another pool) and its tokenAmount.
FarmingCalcs(states) == [farmingState : 0..states, tokenAmount : {0, 5}]

\* await this.connection.getProgramAccounts(programId, { filters: [{ dataSize }] })
ClaimCalcs(p, ok, calcs) ==
    /\ op[p] = "claim" /\ pc[p] = "claim:calcs"
    /\ \A i \in 1..Len(calcs) : calcs[i].farmingState <= local[p].states
    /\ IF ok
       THEN /\ RequestAnswers(p)
            /\ local' = [local EXCEPT ![p].calcs = calcs]
            /\ pc' = [pc EXCEPT ![p] = "claim:submit"]
            /\ UNCHANGED result
       ELSE /\ RequestFails(p)
            /\ UNCHANGED local
    /\ UNCHANGED <<op, params, transaction, sent, pending>>

\* calcAccounts.filter((ca) => stateKeys.includes(ca.farmingState.toBase58()))
CalcAccountsForStates(calcs, states) ==
    LET OfPool(ca) == ca.farmingState \in 1..states
    IN SelectSeq(calcs, OfPool)

\* calcAccountsForStates.find((ca) => ca.farmingState.equals(state.statePublicKey)):
\* the position of the calc account of `state`, 0 when it has none.
FindCalcAccount(calcsForStates, state) ==
    LET OfState(ca) == ca.farmingState = state
    IN Find([k \in 1..Len(calcsForStates) |-> OfState(calcsForStates[k])])

\* stateVaults.map(...).filter((sv) => sv.calcAccount?.tokenAmount.gtn(0)):
\* the states (by position) that are kept, in order.
RECURSIVE FarmingCalcsFrom(_, _, _)
FarmingCalcsFrom(calcsForStates, states, state) ==
    IF state > states THEN <<>>
    ELSE LET i == FindCalcAccount(calcsForStates, state)
         IN (IF i # 0 /\ calcsForStates[i].tokenAmount > 0 THEN <<state>> ELSE <<>>)
            \o FarmingCalcsFrom(calcsForStates, states, state + 1)

ClaimFarmingCalcs(calcs, states) ==
    FarmingCalcsFrom(CalcAccountsForStates(calcs, states), states, 1)

\* The instruction is built from farmingCalcs[0]; reading it throws a
\* TypeError when the list is empty.
ClaimSubmit(p) ==
    /\ op[p] = "claim" /\ pc[p] = "claim:submit"
    /\ LET farmingCalcs == ClaimFarmingCalcs(local[p].calcs, local[p].states)
       IN IF Len(farmingCalcs) = 0
          THEN /\ Throw(p, "TypeError: Cannot read properties of undefined")
               /\ UNCHANGED <<sent, issued>>
          ELSE /\ SendTransaction(p,
                      << WithdrawFarmedInstruction(
                             OnChain("farmingState", local[p].farmingStateItem),
                             OnChain("statePublicKey", farmingCalcs[1]),
                             local[p].tokenAccountPublicKey) >>,
                      {})
               /\ UNCHANGED result
    /\ UNCHANGED <<op, params, local, transaction, pending, netFailed>>

\* ------------------------------------------------------------ completion
\* The network settles the single submission of a call: the promise of
\* sendTransaction is the promise the call returned.
SendSettles(p, ok) ==
    /\ op[p] \notin {"idle", "endStaking"} /\ pc[p] = "sending"
    /\ sent' = [sent EXCEPT ![p][1].status = IF ok THEN "ok" ELSE "failed"]
    /\ result' = [result EXCEPT ![p] = IF ok THEN Resolved(TxId(p, 1))
                                       ELSE Rejected(NetworkError)]
    /\ netFailed' = [netFailed EXCEPT ![p] = ~ok]
    /\ pc' = [pc EXCEPT ![p] = "done"]
    /\ UNCHANGED <<op, params, local, transaction, issued, pending>>

\* The caller has the outcome; the call and its locals are gone.
Return(p) ==
    /\ op[p] # "idle" /\ pc[p] = "done"
    /\ op' = [op EXCEPT ![p] = "idle"]
    /\ pc' = [pc EXCEPT ![p] = "idle"]
    /\ params' = [params EXCEPT ![p] = None]
    /\ local' = [local EXCEPT ![p] = None]
    /\ transaction' = [transaction EXCEPT ![TxSlot(p)] = <<>>]
    /\ sent' = [sent EXCEPT ![p] = <<>>]
    /\ result' = [result EXCEPT ![p] = Pending]
    /\ issued' = [issued EXCEPT ![p] = 0]
    /\ pending' = [pending EXCEPT ![p] = 0]
    /\ netFailed' = [netFailed EXCEPT ![p] = FALSE]

\* --------------------------------------------------------- specifications
\* What the callers pass and what the network answers.
Inputs ==
    [swap |-> SwapParams,
     deposit |-> DepositLiquidityParams,
     maxWithdrawable |-> MaxWithdrawableParams,
     vaults |-> VaultAnswers,
     withdraw |-> WithdrawLiquidityParams,
     endStakingTicket |-> EndStakingTicketParams,
     claim |-> ClaimParams,
     walletTokens |-> TokenAccountLists,
     stakingPools |-> StakingPools,
     tickets |-> TicketLists,
     clock |-> Clock,
     states |-> 0..MaxStates,
     calcs |-> SeqsUpTo(FarmingCalcs(MaxStates), MaxCalcs)]

\* A choice of them for two calls that run at the same time: a pool with
\* wrapped SOL as quote token, a staking pool that passes the farming checks.
LockedPool == [farmingIsNull |-> FALSE,
               farming |-> << [tokensTotal |-> 2, tokensUnlocked |-> 1] >>]

OpenTicket == [endTime |-> DEFAULT_FARMING_TICKET_END_TIME, startTime |-> UnstakeDelay - 1]

ConcurrentInputs ==
    [swap |-> {in \in SwapParams :
                  /\ in.pool = [baseTokenMint |-> RIN_MINT, quoteTokenMint |-> SOL_MINT]
                  /\ in.side = SIDE_ASK
                  /\ in.userQuoteTokenAccount = undefined
                  /\ in.referralParams # None => in.referralParams.createTokenAccounts},
     deposit |-> DepositLiquidityParams,
     maxWithdrawable |-> {[poolTokenAmount |-> 1]},
     vaults |-> {[supply |-> 2, baseTokenAmount |-> 3, quoteTokenAmount |-> 1]},
     withdraw |-> {in \in WithdrawLiquidityParams :
                  /\ in.pool = [baseTokenMint |-> RIN_MINT, quoteTokenMint |-> SOL_MINT]
                  /\ in.userBaseTokenAccount = undefined
                  /\ in.baseTokenReturnedMin = in.quoteTokenReturnedMin},
     endStakingTicket |-> EndStakingTicketParams,
     claim |-> {[stakingPool |-> LockedPool]},
     walletTokens |-> {<<>>, <<SOL_MINT>>, <<RIN_MINT>>},
     stakingPools |-> {LockedPool},
     tickets |-> {<<>>, <<OpenTicket, OpenTicket>>},
     clock |-> {2 * UnstakeDelay * 1000},
     states |-> {1},
     calcs |-> {<<>>, << [farmingState |-> 1, tokenAmount |-> 5] >>}]

Step(p, D) ==
    \/ \E in \in D.swap : SwapCall(p, in)
    \/ SwapBaseAccount(p)
    \/ SwapQuoteAccount(p)
    \/ SwapAddInstruction(p)
    \/ \E walletTokens \in D.walletTokens : SwapReferralTokens(p, TRUE, walletTokens)
    \/ SwapReferralTokens(p, FALSE, <<>>)
    \/ SwapReferralFee(p)
    \/ SwapCloseAndSend(p)
    \/ \E in \in D.maxWithdrawable : GetMaxWithdrawableCall(p, in)
    \/ \E answer \in D.vaults : GetMaxWithdrawable(p, TRUE, answer)
    \/ GetMaxWithdrawable(p, FALSE, Unanswered)
    \/ \E in \in D.deposit : DepositCall(p, in)
    \/ \E ok \in BOOLEAN : DepositMintInfo(p, ok)
    \/ \E ok, vaultEmpty \in BOOLEAN : DepositVault(p, ok, vaultEmpty)
    \/ DepositPoolAccount(p)
    \/ DepositSend(p)
    \/ \E in \in D.withdraw : WithdrawCall(p, in)
    \/ WithdrawBaseAccount(p)
    \/ WithdrawQuoteAccount(p)
    \/ \E ok, supplyZero \in BOOLEAN : WithdrawMaxWithdrawable(p, ok, supplyZero)
    \/ WithdrawSend(p)
    \/ StartStakingCall(p)
    \/ \E stakingPool \in D.stakingPools : StartStakingPoolInfo(p, TRUE, stakingPool)
    \/ StartStakingPoolInfo(p, FALSE, Consumed)
    \/ \E ok \in BOOLEAN : StartStakingTicket(p, ok)
    \/ \E walletTokens \in D.walletTokens : StartStakingTokens(p, TRUE, walletTokens)
    \/ StartStakingTokens(p, FALSE, <<>>)
    \/ StartStakingSubmit(p)
    \/ \E in \in D.endStakingTicket : EndStakingTicketCall(p, in)
    \/ EndStakingTicketSend(p)
    \/ EndStakingCall(p)
    \/ \E stakingPool \in D.stakingPools : EndStakingPoolInfo(p, TRUE, stakingPool)
    \/ EndStakingPoolInfo(p, FALSE, Consumed)
    \/ EndStakingChecks(p)
    \/ \E walletTokens \in D.walletTokens : EndStakingTokens(p, TRUE, walletTokens)
    \/ EndStakingTokens(p, FALSE, <<>>)
    \/ EndStakingTokenAccount(p)
    \/ \E tickets \in D.tickets : EndStakingTickets(p, TRUE, tickets)
    \/ EndStakingTickets(p, FALSE, <<>>)
    \/ \E now \in D.clock : EndStakingFanOut(p, now)
    \/ \E i \in 1..MaxTickets, ok \in BOOLEAN : EndStakingTicketSettles(p, i, ok)
    \/ \E in \in D.claim : ClaimCall(p, in)
    \/ ClaimChecks(p)
    \/ \E walletTokens \in D.walletTokens : ClaimTokens(p, TRUE, walletTokens)
    \/ ClaimTokens(p, FALSE, <<>>)
    \/ ClaimTokenAccount(p)
    \/ \E states \in D.states : ClaimStakingState(p, TRUE, states)
    \/ ClaimStakingState(p, FALSE, 0)
    \/ ClaimResolveRewards(p)
    \/ \E ok \in BOOLEAN : ClaimVaultSettles(p, ok)
    \/ \E calcs \in D.calcs : ClaimCalcs(p, TRUE, calcs)
    \/ ClaimCalcs(p, FALSE, <<>>)
    \/ ClaimSubmit(p)
    \/ \E ok \in BOOLEAN : SendSettles(p, ok)
    \/ Return(p)

\* One call at a time, with every input and every answer.
Next == Step(1, Inputs)

\* Amounts around the multiples of 500, slippages and referral shares for
\* swaps on one pool with both accounts created by the call.
SwapAmounts == (0..MaxAmount) \cup {500 * a + d : a \in 1..MaxAmount, d \in {-1, 0, 1}}

SwapSlippages == {<<>>, <<0>>, <<1>>, <<500>>, <<1000>>}

ReferralPercents == {0, 1, 50, 100}

AmountInputs ==
    [ConcurrentInputs EXCEPT
        !.swap = SwapParamsOf({[baseTokenMint |-> RIN_MINT, quoteTokenMint |-> SOL_MINT]},
                              {}, SwapAmounts, SwapSlippages,
                              {None} \cup ReferralParamsOf(ReferralPercents))]

\* One call at a time, the swaps over a range of amounts.
NextAmounts == Step(1, AmountInputs)

SpecAmounts == Init /\ [][NextAmounts]_vars

Spec == Init /\ [][Next]_vars

\* Two calls on the same clients, interleaved at their awaits.
NextConcurrent == \E p \in Procs : Step(p, ConcurrentInputs)

SpecConcurrent == Init /\ [][NextConcurrent]_vars

\* ================================================================ claims
\* The positions of the instructions of one kind in a transaction.
Positions(tx, kind) == {i \in 1..Len(tx) : tx[i].kind = kind}

\* The call p has handed its (first) transaction to sendTransaction.
HasSent(p, name) == op[p] = name /\ Len(sent[p]) >= 1

\* An awaited request of call p failed before anything was sent.
AwaitedRequestFailed(p) == result[p].error = NetworkError /\ Len(sent[p]) = 0

\* ---------------------------------------------------------------- C1
\* The stage of the i-th instruction of a swap transaction whose swap
\* instruction is at position s: 1 creation of the base account, 2 creation
\* of the quote account, 3 swap, 4 creation of the referral's account,
\* 5 fee transfer, 6 close-account; 0 for anything else.
SwapStage(tx, s, i) ==
    IF tx[i].kind = "swap" THEN 3
    ELSE IF tx[i].kind = "transfer" THEN 5
    ELSE IF tx[i].kind = "closeAccount" THEN 6
    ELSE IF tx[i].kind = "createTokenAccount"
    THEN IF tx[i].owner # walletPublicKey THEN 4
         ELSE IF tx[i].account = tx[s].userBaseTokenAccount THEN 1
         ELSE IF tx[i].account = tx[s].userQuoteTokenAccount THEN 2
         ELSE 0
    ELSE 0

SwapOrdered(in, tx) ==
    /\ Cardinality(Positions(tx, "swap")) = 1
    /\ LET s == CHOOSE i \in Positions(tx, "swap") : TRUE
           Stage(i) == SwapStage(tx, s, i)
           Count(n) == Cardinality({i \in 1..Len(tx) : Stage(i) = n})
       IN /\ \A i \in 1..Len(tx) : Stage(i) # 0
          /\ \A i, j \in 1..Len(tx) : i < j => Stage(i) <= Stage(j)
          /\ Count(1) = (IF in.userBaseTokenAccount = undefined THEN 1 ELSE 0)
          /\ Count(2) = (IF in.userQuoteTokenAccount = undefined THEN 1 ELSE 0)
          /\ Count(4) <= 1
          /\ Count(5) = (IF in.referralParams = None THEN 0 ELSE 1)
          /\ in.referralParams = None => Count(4) = 0
          /\ Count(6) = (IF in.pool.baseTokenMint = SOL_MINT THEN 1 ELSE 0)
                        + (IF in.pool.quoteTokenMint = SOL_MINT THEN 1 ELSE 0)

\* C1: swap hands a single transaction to submission, and its instructions
\* are in the order: creation of the missing base account, creation of the
\* missing quote account, the swap instruction (exactly once), then with
\* referralParams the optional creation of the referral's account and the fee
\* transfer, then the close-account instructions.
C1_SwapInstructionOrder ==
    \A p \in Procs :
        op[p] = "swap" =>
            /\ Len(sent[p]) <= 1
            /\ Len(sent[p]) = 1 => SwapOrdered(params[p], sent[p][1].transaction)

\* A swap that sent all six stages in one transaction.
C1_Witness ==
    \E p \in Procs :
        /\ HasSent(p, "swap")
        /\ LET tx == sent[p][1].transaction
           IN /\ Len(tx) >= 6
              /\ Positions(tx, "transfer") # {}
              /\ Positions(tx, "closeAccount") # {}
              /\ Cardinality(Positions(tx, "createTokenAccount")) = 3

\* ---------------------------------------------------------------- C2
\* `given` is the account parameter as the caller passed it, `used` the
\* account the action instruction (the last of tx) refers to.
CreatedIfMissing(tx, given, used) ==
    LET creations == {i \in Positions(tx, "createTokenAccount") : tx[i].account = used}
    IN IF given = undefined
       THEN /\ Cardinality(creations) = 1
            /\ \A i \in creations : i < Len(tx) /\ tx[i].owner = walletPublicKey
            /\ used.origin = "generated"
       ELSE /\ creations = {}
            /\ used = given

C2_Deposit(p) ==
    LET tx == sent[p][1].transaction
        action == tx[Len(tx)]
    IN /\ Positions(tx, "depositLiquidity") = {Len(tx)}
       /\ CreatedIfMissing(tx, params[p].userPoolTokenAccount, action.userPoolTokenAccount)
       /\ Cardinality(Positions(tx, "createTokenAccount"))
            = (IF params[p].userPoolTokenAccount = undefined THEN 1 ELSE 0)
       /\ Len(tx) = 1 + Cardinality(Positions(tx, "createTokenAccount"))

C2_Withdraw(p) ==
    LET tx == sent[p][1].transaction
        action == tx[Len(tx)]
    IN /\ Positions(tx, "withdrawLiquidity") = {Len(tx)}
       /\ CreatedIfMissing(tx, params[p].userBaseTokenAccount, action.userBaseTokenAccount)
       /\ CreatedIfMissing(tx, params[p].userQuoteTokenAccount, action.userQuoteTokenAccount)
       /\ action.userBaseTokenAccount # action.userQuoteTokenAccount
       /\ Cardinality(Positions(tx, "createTokenAccount"))
            = (IF params[p].userBaseTokenAccount = undefined THEN 1 ELSE 0)
              + (IF params[p].userQuoteTokenAccount = undefined THEN 1 ELSE 0)
       /\ Len(tx) = 1 + Cardinality(Positions(tx, "createTokenAccount"))

\* C2: in depositLiquidity and withdrawLiquidity every user token account the
\* caller left out gets exactly one create-account step before the action
\* instruction, which refers to the new account; a supplied account is used
\* as it is and nothing is created for it.  The action instruction is the
\* last one, and a call that gets as far as submitting submits once: it
\* never submits twice, and it ends without a submission only by throwing.
C2_CreateIfMissingThenAction ==
    \A p \in Procs :
        /\ op[p] \in {"depositLiquidity", "withdrawLiquidity"} =>
              /\ Len(sent[p]) <= 1
              /\ pc[p] \in {"sending", "done"} =>
                    (Len(sent[p]) = 1 \/ result[p].status = "rejected")
              /\ result[p].status = "resolved" => Len(sent[p]) = 1
        /\ HasSent(p, "depositLiquidity") => C2_Deposit(p)
        /\ HasSent(p, "withdrawLiquidity") => C2_Withdraw(p)

\* A withdrawal that created both accounts and was submitted.
C2_Witness ==
    \E p \in Procs :
        /\ HasSent(p, "withdrawLiquidity")
        /\ params[p].userBaseTokenAccount = undefined
        /\ params[p].userQuoteTokenAccount = undefined
        /\ Len(sent[p][1].transaction) = 3

\* ---------------------------------------------------------------- C3
\* The transaction tx has, before its action instruction, the instruction
\* that creates the account `used`.
CreatedBefore(tx, kind, used) ==
    \E a \in Positions(tx, kind) :
        \E c \in Positions(tx, "createTokenAccount") :
            c < a /\ tx[c].account = used

\* C3: in endStaking and claim, when the wallet has no token account for the
\* mint of the staking pool, the transaction that carries the unstaking
\* (withdraw-farmed) instruction holds, before it, the instruction creating
\* the user token account the action instruction refers to.
C3_CreateAccountBeforeStakingAction ==
    \A p \in Procs :
        /\ HasSent(p, "endStaking") =>
              \A i \in 1..Len(sent[p]) :
                  LET tx == sent[p][i].transaction
                  IN \A a \in Positions(tx, "unstaking") :
                        tx[a].userStakingTokenAccount.origin = "generated"
                            => CreatedBefore(tx, "unstaking", tx[a].userStakingTokenAccount)
        /\ HasSent(p, "claim") =>
              LET tx == sent[p][1].transaction
              IN \A a \in Positions(tx, "withdrawFarmed") :
                    tx[a].userFarmingTokenAccount.origin = "generated"
                        => CreatedBefore(tx, "withdrawFarmed", tx[a].userFarmingTokenAccount)

\* ---------------------------------------------------------------- C4
\* The token accounts of the income mint among those of the referral.
ReferralIncomeAccounts(p) ==
    {OnChain("referralAccount", i) : i \in
        {j \in 1..Len(local[p].walletTokens) :
            local[p].walletTokens[j] =
                (IF params[p].side = SIDE_ASK THEN params[p].pool.quoteTokenMint
                 ELSE params[p].pool.baseTokenMint)}}

NoReferralAccountError == "No token account for referral wallet!"

\* C4: in swap with referralParams, when the referral has no token account of
\* the income mint: without createTokenAccounts the call fails with 'No token
\* account for referral wallet!' and submits nothing; with it, an account of
\* the referral paid by the wallet is created before the fee transfer, which
\* goes to the new account.  When the referral has such an account, it is
\* the destination of the fee and nothing is created for the referral.
C4_ReferralFeeDestination ==
    \A p \in Procs :
        (op[p] = "swap" /\ params[p].referralParams # None) =>
            LET accounts == ReferralIncomeAccounts(p)
                create == params[p].referralParams.createTokenAccounts
                answered == pc[p] \in {"swap:fee", "swap:close", "sending", "done"}
                            /\ ~AwaitedRequestFailed(p)
                tx == sent[p][1].transaction
                creations == {i \in Positions(tx, "createTokenAccount") :
                                  tx[i].owner = params[p].referralParams.referralAccount}
            IN /\ (answered /\ accounts = {} /\ ~create) =>
                    /\ Len(sent[p]) = 0
                    /\ pc[p] \in {"swap:fee", "done"}
                    /\ pc[p] = "done" => result[p] = Rejected(NoReferralAccountError)
               /\ result[p].error = NoReferralAccountError =>
                    (answered /\ accounts = {} /\ ~create)
               /\ (Len(sent[p]) = 1 /\ accounts = {}) =>
                    /\ create
                    /\ Cardinality(creations) = 1
                    /\ \A c \in creations : \A t \in Positions(tx, "transfer") :
                          /\ c < t
                          /\ tx[c].payer = walletPublicKey
                          /\ tx[c].mint = (IF params[p].side = SIDE_ASK
                                           THEN params[p].pool.quoteTokenMint
                                           ELSE params[p].pool.baseTokenMint)
                          /\ tx[t].destination = tx[c].account
               /\ (Len(sent[p]) = 1 /\ accounts # {}) =>
                    /\ creations = {}
                    /\ \A t \in Positions(tx, "transfer") : tx[t].destination \in accounts

\* A swap that failed for want of a referral account, with nothing submitted.
C4_Witness ==
    \E p \in Procs :
        /\ op[p] = "swap" /\ pc[p] = "done"
        /\ result[p] = Rejected(NoReferralAccountError)
        /\ Len(local[p].walletTokens) > 0
        /\ sent[p] = <<>>

\* ---------------------------------------------------------------- C5
HasPoolTokenAccount(walletTokens) ==
    \E i \in 1..Len(walletTokens) : walletTokens[i] = poolTokenMint

HasLockedFarming(stakingPool) ==
    /\ ~stakingPool.farmingIsNull
    /\ \E i \in 1..Len(stakingPool.farming) :
          stakingPool.farming[i].tokensTotal # stakingPool.farming[i].tokensUnlocked

\* C5: startStaking throws and submits nothing when the wallet has no token
\* account of the staking pool's mint, the pool has no farming list, or no
\* farming item has tokensTotal different from tokensUnlocked.  When the three
\* prerequisites hold (and the requests were answered) it submits exactly one
\* transaction: the creation of the ticket account, then the staking
\* instruction, with the generated ticket key pair as partial signer.
C5_StartStakingPrerequisites ==
    \A p \in Procs :
        op[p] = "startStaking" =>
            /\ Len(sent[p]) <= 1
            /\ (pc[p] \in {"sending", "done"} /\ ~AwaitedRequestFailed(p)) =>
                  IF HasPoolTokenAccount(local[p].walletTokens)
                     /\ HasLockedFarming(local[p].stakingPool)
                  THEN /\ Len(sent[p]) = 1
                       /\ LET tx == sent[p][1].transaction
                          IN /\ Len(tx) = 2
                             /\ tx[1].kind = "createAccount"
                             /\ tx[2].kind = "staking"
                             /\ tx[1].account.origin = "generated"
                             /\ tx[2].stakingTicket = tx[1].account
                             /\ sent[p][1].partialSigners = {tx[1].account}
                             /\ \E i \in 1..Len(local[p].walletTokens) :
                                   /\ local[p].walletTokens[i] = poolTokenMint
                                   /\ tx[2].userStakingTokenAccount = OnChain("wallet", i)
                  ELSE /\ result[p].status = "rejected"
                       /\ result[p].error \notin {"", NetworkError}
                       /\ Len(sent[p]) = 0

\* A startStaking whose prerequisites held and that submitted.
C5_Witness ==
    \E p \in Procs :
        /\ HasSent(p, "startStaking")
        /\ Len(local[p].stakingPool.farming) = 2
        /\ local[p].walletTokens[1] # poolTokenMint

\* ---------------------------------------------------------------- C6
\* Some farming state of the pool has a calc account with a positive amount.
ClaimHasPositiveCalc(p) ==
    \E state \in 1..local[p].states : \E i \in 1..Len(local[p].calcs) :
        /\ local[p].calcs[i].farmingState = state
        /\ local[p].calcs[i].tokenAmount > 0

\* Some farming state of the pool has, as the first of its calc accounts in
\* the response, one with a positive amount.
ClaimFirstCalcPositive(p) ==
    \E state \in 1..local[p].states : \E i \in 1..Len(local[p].calcs) :
        /\ local[p].calcs[i].farmingState = state
        /\ local[p].calcs[i].tokenAmount > 0
        /\ \A j \in 1..(i - 1) : local[p].calcs[j].farmingState # state

\* What claim has done once it is past its last request, given whether the
\* on-chain state it needs is there.
ClaimOutcome(p, stateIsThere) ==
    /\ Len(sent[p]) <= 1
    /\ (pc[p] \in {"sending", "done"} /\ ~AwaitedRequestFailed(p)) =>
          IF stateIsThere
          THEN /\ Len(sent[p]) = 1
               /\ Len(sent[p][1].transaction) = 1
               /\ sent[p][1].transaction[1].kind = "withdrawFarmed"
          ELSE /\ result[p].status = "rejected"
               /\ result[p].error \notin {"", NetworkError}
               /\ Len(sent[p]) = 0
    /\ (pc[p] = "done" /\ local[p].farmingStateItem = 0 /\ ~AwaitedRequestFailed(p)) =>
          /\ ~HasLockedFarming(local[p].stakingPool)
          /\ result[p].status = "rejected"
          /\ Len(sent[p]) = 0

\* C6 as stated: claim throws and submits nothing when the pool has no farming
\* list, no farming item has tokensTotal different from tokensUnlocked, or no
\* farming state of the pool has a farming-calc account with a positive
\* tokenAmount; otherwise it submits exactly one transaction holding exactly
\* one withdraw-farmed instruction.
C6_ClaimMissingState ==
    \A p \in Procs : op[p] = "claim" => ClaimOutcome(p, ClaimHasPositiveCalc(p))

\* C6 amended: the third condition is that no farming state of the pool has,
\* as the first farming-calc account returned for it, one with a positive
\* tokenAmount.
C6_ClaimMissingStateFirstCalc ==
    \A p \in Procs : op[p] = "claim" => ClaimOutcome(p, ClaimFirstCalcPositive(p))

\* A claim that threw although a calc account of the state has a positive
\* amount: an account with amount 0 of the same state came first.
C6_Witness ==
    \E p \in Procs :
        /\ op[p] = "claim" /\ pc[p] = "done"
        /\ ClaimHasPositiveCalc(p)
        /\ ~ClaimFirstCalcPositive(p)
        /\ result[p].status = "rejected"
        /\ Len(sent[p]) = 0

\* ---------------------------------------------------------------- C7
NoRetryOps == {"depositLiquidity", "withdrawLiquidity", "swap", "startStaking",
               "endStakingTicket", "claim"}

NoRetryState(ops) ==
    \A p \in Procs :
        op[p] \in ops =>
            /\ Len(sent[p]) <= 1
            /\ netFailed[p] => (pc[p] = "done" /\ result[p] = Rejected(NetworkError))

NoRetryStep(ops) ==
    \A p \in Procs :
        (op[p] \in ops /\ netFailed[p] /\ op'[p] = op[p]) =>
            (issued'[p] = issued[p] /\ sent'[p] = sent[p])

\* C7: no operation retries.  In depositLiquidity, withdrawLiquidity, swap,
\* startStaking, endStakingTicket and claim the transaction is handed to
\* submission at most once, and the failure of a network request or of the
\* submission ends the call with that failure as its outcome; the call issues
\* no request and no submission afterwards.
C7_NoRetry == [] NoRetryState(NoRetryOps) /\ [][NoRetryStep(NoRetryOps)]_vars

\* The same, claim left out.
NoRetryExceptClaim ==
    [] NoRetryState(NoRetryOps \ {"claim"}) /\ [][NoRetryStep(NoRetryOps \ {"claim"})]_vars

\* ---------------------------------------------------------------- C8
EndStakingFanOutState ==
    \A p \in Procs :
        op[p] = "endStaking" =>
            LET n == Len(sent[p])
                AllOk == \A i \in 1..n : sent[p][i].status = "ok"
            IN /\ n > 0 =>
                    /\ n = Len(local[p].ticketsToClose)
                    /\ \A i \in 1..n :
                          /\ Len(sent[p][i].transaction) = 1
                          /\ sent[p][i].transaction[1].kind = "unstaking"
                          /\ sent[p][i].transaction[1].stakingTicket
                                = OnChain("stakingTicket", local[p].ticketsToClose[i])
                    /\ \A i, j \in 1..n :
                          i < j => local[p].ticketsToClose[i] < local[p].ticketsToClose[j]
               /\ (\E i \in 1..n : sent[p][i].status = "failed")
                    => result[p] = Rejected(NetworkError)
               /\ result[p].status = "resolved" <=> (n > 0 /\ AllOk)
               /\ result[p].status = "resolved" =>
                    /\ Len(result[p].list) = Len(local[p].ticketsToClose)
                    /\ \A i \in 1..n : result[p].list[i] = TxId(p, i)

EndStakingFanOutStep ==
    \A p \in Procs :
        (op[p] = "endStaking" /\ op'[p] = "endStaking" /\ Len(sent[p]) > 0) =>
            /\ Len(sent'[p]) = Len(sent[p])
            /\ issued'[p] = issued[p]
            /\ \A i \in 1..Len(sent[p]) :
                  /\ sent'[p][i].transaction = sent[p][i].transaction
                  /\ sent'[p][i].status \in {"inflight", "ok", "failed"}
                  /\ sent[p][i].status # "inflight" => sent'[p][i] = sent[p][i]

\* C8: endStaking closes the tickets as a parallel fan-out.  One transaction
\* per ticket to close is submitted, all of them started before any has
\* completed; they complete in any order; the failure of one rejects
\* endStaking while the others stay as they are, neither cancelled nor
\* followed by a compensating submission.  When all succeed the result is the
\* list of their transaction ids, in the order of the tickets.
C8_EndStakingFanOut == [] EndStakingFanOutState /\ [][EndStakingFanOutStep]_vars

\* endStaking is rejected by the failure of the second ticket while the first
\* ticket's submission is still in flight.
C8_Witness ==
    \E p \in Procs :
        /\ op[p] = "endStaking" /\ Len(sent[p]) = 2
        /\ sent[p][1].status = "inflight"
        /\ sent[p][2].status = "failed"
        /\ result[p] = Rejected(NetworkError)

\* ---------------------------------------------------------------- C9
\* The transaction call p submits when it runs alone with the same parameters
\* and the same answers of the network.
AloneAccount(given, newKey) == IF given = undefined THEN newKey ELSE given

AloneCreation(given, mint, newKey) ==
    IF given = undefined
    THEN << [kind |-> "createTokenAccount", account |-> newKey,
             owner |-> walletPublicKey, mint |-> mint, payer |-> walletPublicKey] >>
    ELSE <<>>

SwapAlone(p, in, walletTokens) ==
    LET base == AloneAccount(in.userBaseTokenAccount, Generated(p, 1))
        nBase == IF in.userBaseTokenAccount = undefined THEN 1 ELSE 0
        quote == AloneAccount(in.userQuoteTokenAccount, Generated(p, nBase + 1))
        nQuote == nBase + (IF in.userQuoteTokenAccount = undefined THEN 1 ELSE 0)
        income == IF in.side = SIDE_ASK THEN in.pool.quoteTokenMint ELSE in.pool.baseTokenMint
        from == IF in.side = SIDE_ASK THEN quote ELSE base
        owned == {j \in 1..Len(walletTokens) : walletTokens[j] = income}
        first == CHOOSE j \in owned : \A k \in owned : j <= k
        slippage == IF in.slippage = <<>> THEN 1 ELSE in.slippage[1]
        minIncome == (in.minIncomeAmount * (1000 - slippage)) \div 1000
        amount == (minIncome * in.referralParams.referralPercent) \div 100
        fee == IF in.referralParams = None THEN <<>>
               ELSE IF owned # {}
               THEN << [kind |-> "transfer", source |-> from,
                        destination |-> OnChain("referralAccount", first),
                        owner |-> walletPublicKey, amount |-> amount] >>
               ELSE << [kind |-> "createTokenAccount", account |-> Generated(p, nQuote + 1),
                        owner |-> in.referralParams.referralAccount, mint |-> income,
                        payer |-> walletPublicKey],
                       [kind |-> "transfer", source |-> from,
                        destination |-> Generated(p, nQuote + 1),
                        owner |-> walletPublicKey, amount |-> amount] >>
        Close(account) == [kind |-> "closeAccount", account |-> account,
                           destination |-> walletPublicKey, owner |-> walletPublicKey]
    IN AloneCreation(in.userBaseTokenAccount, in.pool.baseTokenMint, base)
       \o AloneCreation(in.userQuoteTokenAccount, in.pool.quoteTokenMint, quote)
       \o << [kind |-> "swap", userBaseTokenAccount |-> base,
              userQuoteTokenAccount |-> quote, side |-> in.side,
              minIncomeAmount |-> minIncome,
              walletAuthority |-> walletPublicKey] >>
       \o fee
       \o (IF in.pool.baseTokenMint = SOL_MINT THEN << Close(base) >> ELSE <<>>)
       \o (IF in.pool.quoteTokenMint = SOL_MINT THEN << Close(quote) >> ELSE <<>>)

DepositAlone(p, in) ==
    LET account == AloneAccount(in.userPoolTokenAccount, Generated(p, 1))
    IN AloneCreation(in.userPoolTokenAccount, "poolMint", account)
       \o << [kind |-> "depositLiquidity", userPoolTokenAccount |-> account,
              walletAuthority |-> walletPublicKey] >>

WithdrawAlone(p, in) ==
    LET base == AloneAccount(in.userBaseTokenAccount, Generated(p, 1))
        nBase == IF in.userBaseTokenAccount = undefined THEN 1 ELSE 0
        quote == AloneAccount(in.userQuoteTokenAccount, Generated(p, nBase + 1))
    IN AloneCreation(in.userBaseTokenAccount, in.pool.baseTokenMint, base)
       \o AloneCreation(in.userQuoteTokenAccount, in.pool.quoteTokenMint, quote)
       \o << [kind |-> "withdrawLiquidity", userBaseTokenAccount |-> base,
              userQuoteTokenAccount |-> quote, walletAuthority |-> walletPublicKey] >>

SubmitsAsAlone ==
    \A p \in Procs :
        /\ HasSent(p, "swap") =>
              sent[p][1].transaction = SwapAlone(p, params[p], local[p].walletTokens)
        /\ HasSent(p, "depositLiquidity") =>
              sent[p][1].transaction = DepositAlone(p, params[p])
        /\ HasSent(p, "withdrawLiquidity") =>
              sent[p][1].transaction = WithdrawAlone(p, params[p])
        /\ HasSent(p, "startStaking") =>
              /\ Len(sent[p][1].transaction) = 2
              /\ sent[p][1].transaction[1].account = Generated(p, 1)
        /\ HasSent(p, "endStakingTicket") =>
              /\ Len(sent[p][1].transaction) = 1
              /\ sent[p][1].transaction[1].stakingTicket = params[p].stakingTicket
        /\ op[p] = "idle" =>
              /\ transaction[p] = <<>> /\ sent[p] = <<>> /\ local[p] = None
              /\ params[p] = None /\ result[p] = Pending

\* Everything that belongs to call p.
CallState(p) ==
    <<op[p], pc[p], params[p], local[p], transaction[TxSlot(p)], sent[p], result[p],
      issued[p], pending[p], netFailed[p]>>

\* A step of one call leaves the other call as it is.
OneCallPerStep ==
    \A p, q \in Procs :
        p # q => (CallState(p)' = CallState(p) \/ CallState(q)' = CallState(q))

\* C9: the operations share no mutable state.  Whatever the interleaving of
\* two calls on the same clients, each submits the instruction list it submits
\* when it runs alone with the same inputs and the same answers; a step of one
\* call changes nothing of the other, and a call that is over, failed or not,
\* leaves nothing behind.
C9_NoSharedState == [] SubmitsAsAlone /\ [][OneCallPerStep]_vars

\* A swap and a deposit in flight together, each having created an account
\* and submitted its transaction.
C9_Witness ==
    /\ HasSent(1, "swap") /\ HasSent(2, "depositLiquidity")
    /\ Len(sent[1][1].transaction) >= 5
    /\ Len(sent[2][1].transaction) = 2
    /\ sent[1][1].status = "inflight" /\ sent[2][1].status = "inflight"

\* --------------------------------------------------------------- C10
\* The ticket was opened more than 3600 seconds before `now` (milliseconds).
OlderThanDelay(ticket, now) ==
    now - ticket.startTime * 1000 > UnstakeDelay * 1000

\* The ticket was opened more than 3600 seconds before the whole second `now`
\* falls in.
OlderThanDelayInWholeSeconds(ticket, now) ==
    (now \div 1000) - ticket.startTime > UnstakeDelay

EndStakingOutcome(p, Old(_, _)) ==
    LET tickets == local[p].tickets
        qualifying == {i \in 1..Len(tickets) :
                          /\ tickets[i].endTime = DEFAULT_FARMING_TICKET_END_TIME
                          /\ Old(tickets[i], local[p].now)}
        submitted == {sent[p][i].transaction[1].stakingTicket : i \in 1..Len(sent[p])}
    IN /\ Len(sent[p]) > 0 => local[p].now # 0
       /\ local[p].now # 0 =>
             IF qualifying = {}
             THEN /\ result[p] = Rejected("No tickets, nothing to check")
                  /\ Len(sent[p]) = 0
             ELSE /\ Len(sent[p]) = Cardinality(qualifying)
                  /\ submitted = {OnChain("stakingTicket", i) : i \in qualifying}
                  /\ \A i \in 1..Len(sent[p]) :
                        /\ Len(sent[p][i].transaction) = 1
                        /\ sent[p][i].transaction[1].kind = "unstaking"
       /\ (pc[p] = "end:checks" /\ ~HasLockedFarming(local[p].stakingPool)) =>
             Len(sent[p]) = 0
       /\ (pc[p] = "done" /\ local[p].farmingStateItem = 0 /\ ~AwaitedRequestFailed(p)) =>
             /\ ~HasLockedFarming(local[p].stakingPool)
             /\ result[p].status = "rejected"
             /\ result[p].error \notin {"", NetworkError, "No tickets, nothing to check"}
             /\ Len(sent[p]) = 0
       /\ local[p].farmingStateItem # 0 \/ pc[p] \in {"end:poolInfo", "end:checks", "done"}

\* C10 as stated: endStaking submits an unstaking transaction for exactly the
\* tickets of the wallet whose endTime is DEFAULT_FARMING_TICKET_END_TIME and
\* whose startTime is more than 3600 seconds before the current time; with no
\* such ticket it throws 'No tickets, nothing to check' and submits nothing;
\* it throws before any submission when the pool has no farming list or no
\* farming item with tokensTotal different from tokensUnlocked.
C10_EndStakingTickets ==
    \A p \in Procs : op[p] = "endStaking" => EndStakingOutcome(p, OlderThanDelay)

\* C10 amended: the current time is taken in whole seconds, the fraction of
\* the running second dropped.
C10_EndStakingTicketsWholeSeconds ==
    \A p \in Procs :
        op[p] = "endStaking" => EndStakingOutcome(p, OlderThanDelayInWholeSeconds)

\* endStaking left out a ticket opened more than 3600 seconds ago (but less
\* than 3601) and closed another.
C10_Witness ==
    \E p \in Procs :
        /\ op[p] = "endStaking" /\ Len(sent[p]) = 1
        /\ Len(local[p].tickets) = 2
        /\ \E i \in 1..2 :
              /\ local[p].tickets[i].endTime = DEFAULT_FARMING_TICKET_END_TIME
              /\ OlderThanDelay(local[p].tickets[i], local[p].now)
              /\ ~OlderThanDelayInWholeSeconds(local[p].tickets[i], local[p].now)

\* ---------------------------------------------------------------- C14
\* The close-account instructions of tx for `account`.
ClosesOf(tx, account) ==
    {i \in Positions(tx, "closeAccount") : tx[i].account = account}

\* In tx, whose swap instruction is at s, `account` is closed exactly when
\* its mint is wrapped SOL; the funds go to the wallet; the close comes after
\* the swap instruction and after every transfer out of the account.
ClosedWhenWrappedSol(tx, s, account, mint) ==
    /\ Cardinality(ClosesOf(tx, account)) = (IF mint = SOL_MINT THEN 1 ELSE 0)
    /\ \A i \in ClosesOf(tx, account) :
          /\ tx[i].destination = walletPublicKey
          /\ tx[i].owner = walletPublicKey
          /\ i > s
          /\ \A j \in Positions(tx, "transfer") : tx[j].source = account => j < i

\* C14: in a transaction swap has submitted, a close-account instruction for
\* the user's base (quote) token account is there if and only if the pool's
\* base (quote) mint is the wrapped-SOL mint, whether the account was created
\* by the call or supplied by the caller; the closed account's funds go to the
\* wallet; every close-account instruction comes after the swap instruction
\* and after the referral fee transfer that draws from that account; and no
\* other account is closed.
C14_SwapClosesWrappedSol ==
    \A p \in Procs :
        HasSent(p, "swap") =>
            LET tx == sent[p][1].transaction
                in == params[p]
            IN /\ Cardinality(Positions(tx, "swap")) = 1
               /\ LET s == CHOOSE i \in Positions(tx, "swap") : TRUE
                      base == tx[s].userBaseTokenAccount
                      quote == tx[s].userQuoteTokenAccount
                  IN /\ in.userBaseTokenAccount # undefined => base = in.userBaseTokenAccount
                     /\ in.userQuoteTokenAccount # undefined => quote = in.userQuoteTokenAccount
                     /\ ClosedWhenWrappedSol(tx, s, base, in.pool.baseTokenMint)
                     /\ ClosedWhenWrappedSol(tx, s, quote, in.pool.quoteTokenMint)
                     /\ \A i \in Positions(tx, "closeAccount") :
                           tx[i].account \in {base, quote}

\* A submitted swap on a pool with wrapped SOL as base mint whose base account
\* the caller supplied: the fee transfer draws from that account, and the
\* account is closed after it.
C14_Witness ==
    \E p \in Procs :
        /\ HasSent(p, "swap")
        /\ params[p].pool.baseTokenMint = SOL_MINT
        /\ params[p].pool.quoteTokenMint # SOL_MINT
        /\ params[p].userBaseTokenAccount # undefined
        /\ LET tx == sent[p][1].transaction
           IN \E j \in Positions(tx, "transfer") : \E i \in Positions(tx, "closeAccount") :
                 /\ tx[j].source = params[p].userBaseTokenAccount
                 /\ tx[i].account = params[p].userBaseTokenAccount
                 /\ j < i

\* ---------------------------------------------------------------- C12
\* The part of a vault of `tokenAmount` tokens that getMaxWithdrawable
\* returned as `withdrawAmount`, for poolTokenAmount LP tokens out of supply:
\* the floor of the proportional share; for at most `supply` LP tokens it is
\* no more than the vault, and all of the vault for exactly `supply`.
ShareOfVault(withdrawAmount, tokenAmount, poolTokenAmount, supply) ==
    /\ withdrawAmount * supply <= tokenAmount * poolTokenAmount
    /\ tokenAmount * poolTokenAmount < (withdrawAmount + 1) * supply
    /\ poolTokenAmount <= supply => withdrawAmount <= tokenAmount
    /\ poolTokenAmount = supply => withdrawAmount = tokenAmount

\* For the vault balances and the supply of an answer, the shares do not
\* decrease as poolTokenAmount goes from 0 to supply.
SharesNonDecreasing(answer) ==
    \A a \in 0..(answer.supply - 1) :
        /\ WithdrawAmount(answer.baseTokenAmount, a, answer.supply)
               <= WithdrawAmount(answer.baseTokenAmount, a + 1, answer.supply)
        /\ WithdrawAmount(answer.quoteTokenAmount, a, answer.supply)
               <= WithdrawAmount(answer.quoteTokenAmount, a + 1, answer.supply)

\* C12: getMaxWithdrawable returns withdrawAmountBase = floor(baseVaultAmount
\* * poolTokenAmount / supply) and withdrawAmountQuote = floor(quoteVaultAmount
\* * poolTokenAmount / supply); for poolTokenAmount between 0 and supply
\* (supply > 0) each is at most the vault amount, equals the vault amount when
\* poolTokenAmount equals supply, and does not decrease as poolTokenAmount
\* grows.
C12_MaxWithdrawableShares ==
    \A p \in Procs :
        (op[p] = "getMaxWithdrawable" /\ result[p].status = "resolved") =>
            LET answer == local[p].answer
                amount == params[p].poolTokenAmount
            IN /\ answer.supply > 0
               /\ Len(result[p].amounts) = 2
               /\ ShareOfVault(result[p].amounts[1], answer.baseTokenAmount,
                               amount, answer.supply)
               /\ ShareOfVault(result[p].amounts[2], answer.quoteTokenAmount,
                               amount, answer.supply)
               /\ SharesNonDecreasing(answer)

\* getMaxWithdrawable has returned shares that the division rounded down: two
\* of three LP tokens, of vaults that hold two tokens and one.
C12_Witness ==
    \E p \in Procs :
        /\ op[p] = "getMaxWithdrawable" /\ result[p].status = "resolved"
        /\ params[p].poolTokenAmount = 2
        /\ local[p].answer = [supply |-> 3, baseTokenAmount |-> 2, quoteTokenAmount |-> 1]
        /\ result[p].amounts = <<1, 0>>

\* ---------------------------------------------------------------- C13
\* v is floor(m * (1000 - t) / 1000).
FloorOfThousandths(v, m, t) ==
    /\ v * 1000 <= m * (1000 - t)
    /\ m * (1000 - t) < (v + 1) * 1000

\* Over the slippages that are whole thousandths between 0 and 1, the minimum
\* income amount of a swap with the parameters `in` is never more than the
\* caller's, is the caller's at slippage 0, and does not grow with slippage.
MinIncomeAmountOverSlippages(in) ==
    LET At(t) == SwapMinIncomeAmount([in EXCEPT !.slippage = <<t>>])
    IN /\ At(0) = in.minIncomeAmount
       /\ \A t \in 0..1000 : At(t) <= in.minIncomeAmount
       /\ \A t \in 0..999 : At(t + 1) <= At(t)

\* C13: the minimum income amount in the swap instruction of a submitted swap
\* is floor(minIncomeAmount * (1000 - slippage * 1000) / 1000), the slippage
\* being 0.001 when the caller gives none; for every slippage that is a whole
\* number of thousandths between 0 and 1 it never exceeds the caller's
\* minIncomeAmount, equals it when slippage is 0, and does not increase as
\* slippage grows.
C13_SwapMinIncomeAmount ==
    \A p \in Procs :
        HasSent(p, "swap") =>
            LET tx == sent[p][1].transaction
                in == params[p]
                t == IF in.slippage = <<>> THEN 1 ELSE in.slippage[1]
            IN /\ \A i \in Positions(tx, "swap") :
                     FloorOfThousandths(tx[i].minIncomeAmount, in.minIncomeAmount, t)
               /\ Positions(tx, "swap") # {}
               /\ pc[p] = "sending" => MinIncomeAmountOverSlippages(in)

\* A submitted swap whose caller gave no slippage and asked for at least 1001:
\* the instruction carries 999, the floor of 1001 * 999 / 1000.
C13_Witness ==
    \E p \in Procs :
        /\ HasSent(p, "swap")
        /\ params[p].slippage = <<>>
        /\ params[p].minIncomeAmount = 1001
        /\ \E i \in Positions(sent[p][1].transaction, "swap") :
              sent[p][1].transaction[i].minIncomeAmount = 999

\* ---------------------------------------------------------------- C11
\* a is floor(m * percent / 100).
FloorOfPercent(a, m, percent) ==
    /\ a * 100 <= m * percent
    /\ m * percent < (a + 1) * 100

\* For every referral share from 0 to 100 percent the fee taken of m is the
\* floor of that share and never more than m.
RefFeeOverPercents(m) ==
    \A percent \in 0..100 :
        /\ FloorOfPercent(SwapRefFeeAmount(m, percent), m, percent)
        /\ SwapRefFeeAmount(m, percent) <= m

\* `account` is a token account of `mint`: one the network listed for the
\* referral, or one the transaction creates.
IsAccountOfMint(p, tx, account, mint) ==
    \/ \E i \in 1..Len(local[p].walletTokens) :
          account = OnChain("referralAccount", i) /\ local[p].walletTokens[i] = mint
    \/ \E i \in Positions(tx, "createTokenAccount") :
          tx[i].account = account /\ tx[i].mint = mint

====
